---------------------------- MODULE Spec2Model ----------------------------
(***************************************************************************)
(* Model of the AI code review service (odagora/ai-code-review-poc).       *)
(*                                                                         *)
(*   ParseSpec : GitService.get_branch_changes applied to bounded diff     *)
(*               texts (services/git_service.py).                          *)
(*   Spec      : the /review and /health handlers of app.py driving        *)
(*               GitService, JiraService and AIReviewService over a        *)
(*               bounded number of requests.                               *)
(*   RaceSpec  : two callers inside JiraService.client at the same time    *)
(*               (services/jira_service.py).                               *)
(*                                                                         *)
(* Text is modelled by TLA+ strings; Python's str methods are operators    *)
(* computed character by character.                                        *)
(***************************************************************************)
EXTENDS Integers, Sequences, FiniteSets, TLC

VARIABLES
    \* ---- ParseSpec: one call of GitService.get_branch_changes ----
    diffOut,        \* outcome of self.repo.git.diff(...): text or GitCommandError
    blameOut,       \* outcome of self.repo.git.blame(...): text or GitCommandError
    parsed,         \* outcome of get_branch_changes, or NotCalled
    \* ---- Spec: the service process ----
    settings,       \* Settings: AI_SERVICE_URL and AI_SERVICE_API_KEY
    jiraUp,         \* environment: the tracker is reachable right now
    _client,        \* JiraService._client: 0 for None, else a connection handle
    healthCache,    \* lru_cache(maxsize=1) of check_health: <<>> or <<result>>
    reqNo,          \* number of requests started so far
    handler,        \* endpoint handling the current request
    request,        \* ReviewRequest: issue_key and branch_name
    pc,             \* position of the current request in its handler
    attempt,        \* loop variable of the connect loop in JiraService.client
    connects,       \* JIRA(...) constructor calls the process has made
    sleeps,         \* the delays of the time.sleep calls the process has made
    tested,         \* handles on which server_info() succeeded in the loop
    connectRet,     \* position that accessed JiraService.client
    health,         \* HealthResponse of this request's health_check(): <<>> or <<h>>
    code_changes,   \* review_code local: records from get_branch_changes
    post_response,  \* what requests.post gave AIReviewService: <<>> or <<r>>
    review_results, \* review_code local: <<>> or <<dict from AIReviewService>>
    transition_id,  \* _transition_issue: id of the matching transition, "" if none
    calls,          \* calls this request made to git, tracker and backend, in order
    error,          \* exception raised inside the try block: <<>> or <<e>>
    response,       \* what the caller receives: <<>> or <<HTTP response>>
    \* ---- RaceSpec: two callers inside JiraService.client at once ----
    tpc,            \* position of each caller in the property
    tattempt,       \* each caller's loop variable attempt
    tret            \* the handle the property returned to each caller, 0 if none

parseVars == <<diffOut, blameOut, parsed>>
connVars  == <<connects, sleeps, tested>>
raceVars  == <<tpc, tattempt, tret>>
svcVars   == <<settings, jiraUp, _client, healthCache, reqNo, handler, request,
               pc, attempt, connectRet, health, code_changes, review_results,
               transition_id, calls, error, response,
               connects, sleeps, tested, post_response>>
vars      == <<diffOut, blameOut, parsed,
               settings, jiraUp, _client, healthCache, reqNo, handler, request,
               pc, attempt, connectRet, health, code_changes, review_results,
               transition_id, calls, error, response,
               connects, sleeps, tested, post_response,
               tpc, tattempt, tret>>

---------------------------------------------------------------------------
(* Bounds *)

MaxLines    == 4    \* longest diff text of ParseSpec, in lines
MaxRequests == 2    \* review requests handled by the process in Spec

---------------------------------------------------------------------------
(* Python str helpers *)

\* str.startswith(prefix)
StartsWith(s, prefix) ==
    /\ Len(s) >= Len(prefix)
    /\ SubSeq(s, 1, Len(prefix)) = prefix

\* index of the first occurrence of the one-character string c in s, 0 if none
FindChar(s, c) ==
    LET hits == {i \in 1..Len(s) : SubSeq(s, i, i) = c}
    IN  IF hits = {} THEN 0
        ELSE CHOOSE i \in hits : \A j \in hits : i <= j

\* str.split(sep) for a one-character separator: keeps empty pieces
RECURSIVE Split(_, _)
Split(s, sep) ==
    LET i == FindChar(s, sep)
    IN  IF i = 0 THEN <<s>>
        ELSE <<SubSeq(s, 1, i - 1)>> \o Split(SubSeq(s, i + 1, Len(s)), sep)

Whitespace == {" ", "\t", "\r"}

\* str.split() without argument: splits on runs of whitespace, no empty pieces
RECURSIVE SplitWhitespaceFrom(_, _, _, _)
SplitWhitespaceFrom(s, i, cur, acc) ==
    IF i > Len(s)
    THEN IF cur = "" THEN acc ELSE Append(acc, cur)
    ELSE LET c == SubSeq(s, i, i)
         IN  IF c \in Whitespace
             THEN SplitWhitespaceFrom(s, i + 1, "",
                      IF cur = "" THEN acc ELSE Append(acc, cur))
             ELSE SplitWhitespaceFrom(s, i + 1, cur \o c, acc)

SplitWhitespace(s) == SplitWhitespaceFrom(s, 1, "", <<>>)

\* str.lstrip(chars): removes every leading character that is in chars
RECURSIVE LStrip(_, _)
LStrip(s, chars) ==
    IF s # "" /\ SubSeq(s, 1, 1) \in chars
    THEN LStrip(SubSeq(s, 2, Len(s)), chars)
    ELSE s

\* sep.join(pieces)
RECURSIVE Join(_, _)
Join(pieces, sep) ==
    IF pieces = <<>> THEN ""
    ELSE IF Len(pieces) = 1 THEN pieces[1]
    ELSE pieces[1] \o sep \o Join(Tail(pieces), sep)

\* str.replace(old, "") : removes every occurrence of old, left to right
RECURSIVE Remove(_, _)
Remove(s, old) ==
    IF s = "" THEN ""
    ELSE IF StartsWith(s, old) THEN Remove(SubSeq(s, Len(old) + 1, Len(s)), old)
    ELSE SubSeq(s, 1, 1) \o Remove(SubSeq(s, 2, Len(s)), old)

---------------------------------------------------------------------------
(* GitService (services/git_service.py) *)

\* outcomes of a git command run through self.repo.git
GitOk(text)  == [ok |-> TRUE,  out |-> text]
GitError(m)  == [ok |-> FALSE, out |-> m]

\* outcome of a Python call: a returned value or a raised exception
Returned(v)        == [raised |-> "",   msg |-> "",  value |-> v]
Raised(kind, m)    == [raised |-> kind, msg |-> m,   value |-> <<>>]

\* _get_last_author: first "author " line of the blame output, else "Unknown"
_get_last_author(blame) ==
    IF ~blame.ok THEN "Unknown"
    ELSE LET lines   == Split(blame.out, "\n")
             authors == {i \in 1..Len(lines) : StartsWith(lines[i], "author ")}
         IN  IF authors = {} THEN "Unknown"
             ELSE Remove(lines[CHOOSE i \in authors : \A j \in authors : i <= j],
                         "author ")

\* line.startswith("diff --git")
IsHeader(line) == StartsWith(line, "diff --git")

\* (variant testing only the "+++" prefix)
IsFileMarkerPlusOnly(line) == StartsWith(line, "+++")
\* line.startswith("+++") or line.startswith("---")
IsFileMarker(line) == StartsWith(line, "+++") \/ StartsWith(line, "---")

\* line.split()[-1].lstrip("b/")
HeaderPath(line) ==
    LET tokens == SplitWhitespace(line)
    IN  LStrip(tokens[Len(tokens)], {"b", "/"})

\* the record appended to changes
ChangeRecord(path, lines, blame) ==
    [file_path |-> path,
     changes   |-> Join(lines, "\n"),
     author    |-> _get_last_author(blame)]

\* "if current_file and current_changes": current_file is <<>> for None,
\* <<path>> otherwise; None, "" and [] are falsy
HasOpenFile(st) ==
    /\ st.current_file # <<>>
    /\ st.current_file[1] # ""
    /\ st.current_changes # <<>>

Flush(st, blame) ==
    IF HasOpenFile(st)
    THEN Append(st.changes,
                ChangeRecord(st.current_file[1], st.current_changes, blame))
    ELSE st.changes

\* one iteration of "for line in diff.split('\n')"
ParseLine(st, line, blame) ==
    IF IsHeader(line)
    THEN [changes         |-> Flush(st, blame),
          current_file    |-> <<HeaderPath(line)>>,
          current_changes |-> <<>>]
    ELSE IF IsFileMarker(line)
    THEN st
    ELSE [st EXCEPT !.current_changes = Append(@, line)]

RECURSIVE ParseLoop(_, _, _, _)
ParseLoop(st, lines, i, blame) ==
    IF i > Len(lines) THEN st
    ELSE ParseLoop(ParseLine(st, lines[i], blame), lines, i + 1, blame)

\* GitService.get_branch_changes, given what git diff and git blame produce
get_branch_changes(diff, blame) ==
    IF ~diff.ok
    THEN Raised("ValueError", "Error getting branch changes: " \o diff.out)
    ELSE LET st0 == [changes |-> <<>>, current_file |-> <<>>,
                     current_changes |-> <<>>]
             st  == ParseLoop(st0, Split(diff.out, "\n"), 1, blame)
         IN  Returned(Flush(st, blame))

---------------------------------------------------------------------------
(* ParseSpec: get_branch_changes over bounded diff texts *)

\* the header git prints for a file whose path is p on both sides
Header(p) == "diff --git a/" \o p \o " b/" \o p

Paths == {"x.py", "bin/x.py", "b"}

LineAlphabet ==
    {Header(p) : p \in Paths}
        \cup {"@@ -1 +1 @@", "+new", "", "+++ b/x.py", "--- a/x.py"}

ExampleDiff ==
    "diff --git a/x.py b/x.py\n@@ -1,1 +1,1 @@\n-old\n+new\ndiff --git a/y.py b/y.py\n"

TwoFileDiff ==
    "diff --git a/x.py b/x.py\nindex 1a..2b 100644\n--- a/x.py\n+++ b/x.py\n"
    \o "@@ -1 +1,2 @@\n-old\n+new\n\n"
    \o "diff --git a/lib/y.py b/lib/y.py\n--- a/lib/y.py\n+++ b/lib/y.py\n"
    \o "@@ -3 +3 @@\n--- dashes\n+++ pluses"

DiffTexts ==
    {Join(ls, "\n") : ls \in UNION {[1..n -> LineAlphabet] : n \in 1..MaxLines}}
        \cup {ExampleDiff, TwoFileDiff}

DiffOutcomes ==
    {GitOk(t) : t \in DiffTexts}
        \cup {GitError("fatal: bad revision 'main...nope'")}

BlameOutcomes ==
    {GitOk("3f2a 1 1 1\nauthor Al\nauthor-mail <al@x.org>"),
     GitOk(""),
     GitError("fatal: no such path in HEAD")}

NotCalled == [raised |-> "NotCalled", msg |-> "", value |-> <<>>]

NoRequest == [issue_key |-> "", branch_name |-> ""]

\* the service variables are not used by ParseSpec
SvcIdle ==
    /\ settings = [AI_SERVICE_URL |-> "", AI_SERVICE_API_KEY |-> ""]
    /\ jiraUp = TRUE
    /\ _client = 0
    /\ healthCache = <<>>
    /\ reqNo = 0
    /\ handler = ""
    /\ request = NoRequest
    /\ pc = "Idle"
    /\ attempt = 0
    /\ connects = 0
    /\ sleeps = <<>>
    /\ tested = {}
    /\ post_response = <<>>
    /\ connectRet = ""
    /\ health = <<>>
    /\ code_changes = <<>>
    /\ review_results = <<>>
    /\ transition_id = ""
    /\ calls = <<>>
    /\ error = <<>>
    /\ response = <<>>

\* the callers of RaceSpec
Threads == {1, 2}

\* the variables of RaceSpec are not used by ParseSpec and Spec
RaceIdle ==
    /\ tpc = [t \in Threads |-> "Idle"]
    /\ tattempt = [t \in Threads |-> 0]
    /\ tret = [t \in Threads |-> 0]

ParseInit ==
    /\ diffOut \in DiffOutcomes
    /\ blameOut \in BlameOutcomes
    /\ parsed = NotCalled
    /\ SvcIdle
    /\ RaceIdle

GetBranchChanges ==
    /\ parsed = NotCalled
    /\ parsed' = get_branch_changes(diffOut, blameOut)
    /\ UNCHANGED <<diffOut, blameOut>>
    /\ UNCHANGED svcVars
    /\ UNCHANGED raceVars

ParseNext == GetBranchChanges

ParseSpec == ParseInit /\ [][ParseNext]_vars

---------------------------------------------------------------------------
(* The diff text as the claims describe it.  A line is a piece of the text *)
(* between two newline characters (or the start or end of the text).       *)

DiffLines == Split(diffOut.out, "\n")

LineIsHeader(l) == Len(l) >= 10 /\ SubSeq(l, 1, 10) = "diff --git"
LineIsMarker(l) == Len(l) >= 3 /\ SubSeq(l, 1, 3) \in {"+++", "---"}

\* <p> of a header line "diff --git a/<p> b/<p>"
PathOfHeader(l) == SubSeq(l, 14, 13 + ((Len(l) - 16) \div 2))

HeaderIdx == {i \in 1..Len(DiffLines) : LineIsHeader(DiffLines[i])}

NextHeader(h) ==
    LET later == {i \in HeaderIdx : i > h}
    IN  IF later = {} THEN Len(DiffLines) + 1
        ELSE CHOOSE i \in later : \A j \in later : i <= j

\* the lines following header h up to the next header or the end of the text
BodyOf(h) == SubSeq(DiffLines, h + 1, NextHeader(h) - 1)

\* the content lines of header h: its body without the +++/--- lines
NotMarker(l) == ~LineIsMarker(l)
ContentOf(h) == SelectSeq(BodyOf(h), NotMarker)

\* the i-th header of the text
NthHeader(i) == CHOOSE h \in HeaderIdx : Cardinality({j \in HeaderIdx : j <= h}) = i

Extracted == parsed.raised = ""

\* The lines of the text when a final newline ends the last line instead of
\* starting an empty one: the reading under which the text of C2 has no
\* line after its last header.
TextLines ==
    IF Len(DiffLines) > 1 /\ DiffLines[Len(DiffLines)] = ""
    THEN SubSeq(DiffLines, 1, Len(DiffLines) - 1)
    ELSE DiffLines

TextHeaderIdx == {i \in 1..Len(TextLines) : LineIsHeader(TextLines[i])}

TextContentOf(h) ==
    LET later == {i \in TextHeaderIdx : i > h}
        next  == IF later = {} THEN Len(TextLines) + 1
                 ELSE CHOOSE i \in later : \A j \in later : i <= j
    IN  SelectSeq(SubSeq(TextLines, h + 1, next - 1), NotMarker)

\* C1: for every diff text with N headers of distinct paths, each followed
\* by at least one content line, get_branch_changes returns exactly N
\* records and the i-th record belongs to the i-th header.
C1_RecordPerHeader ==
    ( /\ Extracted
      /\ \A h \in TextHeaderIdx : TextContentOf(h) # <<>>
      /\ \A g, h \in HeaderIdx :
            g # h => PathOfHeader(DiffLines[g]) # PathOfHeader(DiffLines[h]) )
    => /\ Len(parsed.value) = Cardinality(HeaderIdx)
       /\ \A i \in 1..Len(parsed.value) :
            parsed.value[i].file_path = PathOfHeader(DiffLines[NthHeader(i)])

\* C2: a header followed by zero content lines before the next header or
\* the end of the text yields no record for that file; the example text,
\* which ends with a newline right after the header of y.py, yields exactly
\* one record, for x.py with changes "@@ -1,1 +1,1 @@\n-old\n+new".
C2_NoRecordWithoutContent ==
    Extracted =>
        /\ Len(parsed.value)
              <= Cardinality({h \in TextHeaderIdx : TextContentOf(h) # <<>>})
        /\ diffOut.out = ExampleDiff =>
              /\ Len(parsed.value) = 1
              /\ parsed.value[1].file_path = "x.py"
              /\ parsed.value[1].changes = "@@ -1,1 +1,1 @@\n-old\n+new"

\* C3: the record opened by a header "diff --git a/<p> b/<p>" has
\* file_path <p>, for every path <p>.
C3_FilePathIsHeaderPath ==
    Extracted =>
        \A h \in HeaderIdx :
            ContentOf(h) # <<>> =>
                \E i \in 1..Len(parsed.value) :
                    /\ parsed.value[i].file_path = PathOfHeader(DiffLines[h])
                    /\ parsed.value[i].changes = Join(ContentOf(h), "\n")

---------------------------------------------------------------------------
(* Settings (config.py) *)

JIRA_PROJECT_KEY == "AIREV"

---------------------------------------------------------------------------
(* JiraService (services/jira_service.py) *)

_max_retries == 5
_retry_delay == 10

\* the issues the tracker holds: project key and the fields the service reads
TrackerIssues ==
    ("AIREV-1" :> [project |-> "AIREV", summary |-> "Add parser",
                   description |-> "", issuetype |-> "Story",
                   status |-> "In Review", assignee |-> "Al"])
    @@ ("OTHER-7" :> [project |-> "OTHER", summary |-> "Fix login",
                      description |-> "", issuetype |-> "Bug",
                      status |-> "Open", assignee |-> ""])

\* self.client.issue(issue_key) on an established handle
ClientIssue(issue_key, up) ==
    IF ~up
    THEN Raised("JIRAError", "HTTPSConnectionPool: Max retries exceeded")
    ELSE IF issue_key \notin DOMAIN TrackerIssues
    THEN Raised("JIRAError", "Issue Does Not Exist")
    ELSE Returned(TrackerIssues[issue_key])

\* any other call on the handle: add_comment, transitions, transition_issue
ClientCall(up) ==
    IF up THEN Returned(<<>>)
    ELSE Raised("JIRAError", "HTTPSConnectionPool: Max retries exceeded")

\* get_issue_context, given the outcome of self.client.issue(issue_key)
get_issue_context(issue_key, fetched) ==
    IF fetched.raised # ""
    THEN fetched
    ELSE IF ~(fetched.value.project = JIRA_PROJECT_KEY)
    THEN Raised("ValueError", "Issue " \o issue_key
                    \o " does not belong to project " \o JIRA_PROJECT_KEY)
    ELSE Returned([issue_key   |-> issue_key,
                   summary     |-> fetched.value.summary,
                   description |-> fetched.value.description,
                   issue_type  |-> fetched.value.issuetype,
                   status      |-> fetched.value.status,
                   assignee    |-> fetched.value.assignee])

RECURSIVE Bullets(_)
Bullets(suggestions) ==
    IF suggestions = <<>> THEN ""
    ELSE "* " \o Head(suggestions) \o "\n" \o Bullets(Tail(suggestions))

_format_review_comment(rr) ==
    "{panel:title=AI Code Review Results|borderStyle=solid|borderColor=#ccc|titleBGColor=#f0f0f0|bgColor=#fff}\n\n"
    \o (IF "summary" \in DOMAIN rr
        THEN "h3. Summary\n" \o rr.summary \o "\n\n" ELSE "")
    \o (IF "suggestions" \in DOMAIN rr
        THEN "h3. Suggestions\n" \o Bullets(rr.suggestions) ELSE "")
    \o "\n{panel}"

UpperCase == "ABCDEFGHIJKLMNOPQRSTUVWXYZ"
LowerCase == "abcdefghijklmnopqrstuvwxyz"

\* str.lower()
RECURSIVE Lower(_)
Lower(s) ==
    IF s = "" THEN ""
    ELSE LET c == SubSeq(s, 1, 1)
             k == FindChar(UpperCase, c)
         IN  (IF k = 0 THEN c ELSE SubSeq(LowerCase, k, k))
                 \o Lower(SubSeq(s, 2, Len(s)))

\* (variant that takes the first available transition, whatever its name)
MatchingTransitionAnyName(transitions, status_name) ==
    IF transitions = <<>> THEN "" ELSE transitions[1].id
\* the loop of _transition_issue: id of the first transition whose name
\* equals status_name ignoring case, "" if there is none
MatchingTransition(transitions, status_name) ==
    LET hits == {i \in 1..Len(transitions) :
                    Lower(transitions[i].name) = Lower(status_name)}
    IN  IF hits = {} THEN ""
        ELSE transitions[CHOOSE i \in hits : \A j \in hits : i <= j].id

\* the status update_with_review asks for, "" if none
TargetStatus(rr) ==
    IF "status" \in DOMAIN rr /\ rr.status = "failed" THEN "Review Failed"
    ELSE IF "status" \in DOMAIN rr /\ rr.status = "success" THEN "Review Passed"
    ELSE ""

\* what the tracker may offer as available transitions of an issue
TransitionLists ==
    { <<>>,
      <<[id |-> "11", name |-> "Done"]>>,
      <<[id |-> "21", name |-> "review passed"],
        [id |-> "31", name |-> "Review Failed"]>>,
      <<[id |-> "41", name |-> "REVIEW FAILED"],
        [id |-> "31", name |-> "Review Failed"],
        [id |-> "51", name |-> "Review Passed "]>> }

---------------------------------------------------------------------------
(* AIReviewService (services/ai_review_service.py) *)

FailureDict(err, summary) ==
    [status |-> "failed", error |-> err, suggestions |-> <<>>,
     summary |-> summary]

\* (variant that reads the context from a key the handler never sets)
_format_review_requestWrongKey(changes) ==
    [files |-> [i \in 1..Len(changes) |->
                   [path    |-> changes[i].file_path,
                    content |-> changes[i].changes,
                    author  |-> changes[i].author,
                    context |-> IF "context" \in DOMAIN changes[i]
                                THEN changes[i].context ELSE <<>>]],
     settings |-> [language |-> "python", style_guide |-> "pep8",
                   complexity_threshold |-> "medium"]]
\* the payload of the POST; "context" is change.get("jira_context", {})
_format_review_request(changes) ==
    [files |-> [i \in 1..Len(changes) |->
                   [path    |-> changes[i].file_path,
                    content |-> changes[i].changes,
                    author  |-> changes[i].author,
                    context |-> IF "jira_context" \in DOMAIN changes[i]
                                THEN changes[i].jira_context ELSE <<>>]],
     settings |-> [language |-> "python", style_guide |-> "pep8",
                   complexity_threshold |-> "medium"]]

\* decoded JSON bodies: an object with its keys, or a value that is no object
JsonObject(d) == [type |-> "object", dict |-> d]
JsonNull      == [type |-> "null",   dict |-> <<>>]

_process_review_response(response_data) ==
    IF response_data.type # "object"
    THEN Raised("TypeError", "argument of type 'NoneType' is not iterable")
    ELSE IF ~({"status", "suggestions", "summary"}
                  \subseteq DOMAIN response_data.dict)
    THEN Returned(FailureDict("Invalid response from AI service",
                              "Failed to process AI review results"))
    ELSE Returned([status      |-> "success",
                   suggestions |-> response_data.dict.suggestions,
                   summary     |-> response_data.dict.summary])

\* (variant that looks at the URL only)
NotConfiguredUrlOnly(st) == st.AI_SERVICE_URL = ""
\* not settings.AI_SERVICE_URL or not settings.AI_SERVICE_API_KEY
NotConfigured(st) == st.AI_SERVICE_URL = "" \/ st.AI_SERVICE_API_KEY = ""

\* (variant that repeats a failed POST once before giving up)
AIReviewService_review_codeRetrying(st, changes, http) ==
    IF NotConfigured(st)
    THEN [result |-> Returned(FailureDict("AI service not configured",
              "Unable to perform code review: AI service not configured")),
          posts  |-> <<>>]
    ELSE LET post == [url     |-> st.AI_SERVICE_URL \o "/review",
                      auth    |-> "Bearer " \o st.AI_SERVICE_API_KEY,
                      json    |-> _format_review_request(changes),
                      timeout |-> 30]
         IN  IF http.kind = "error"
             THEN [result |-> Returned(FailureDict(
                        "AI review service error: " \o http.detail,
                        "Failed to complete code review")),
                   posts  |-> <<post, post>>]
             ELSE [result |-> _process_review_response(http.json),
                   posts  |-> <<post>>]
\* AIReviewService.review_code, given what the POST produces: the outcome
\* of the call and the POST requests it made
AIReviewService_review_code(st, changes, http) ==
    IF NotConfigured(st)
    THEN [result |-> Returned(FailureDict("AI service not configured",
              "Unable to perform code review: AI service not configured")),
          posts  |-> <<>>]
    ELSE LET post == [url     |-> st.AI_SERVICE_URL \o "/review",
                      auth    |-> "Bearer " \o st.AI_SERVICE_API_KEY,
                      json    |-> _format_review_request(changes),
                      timeout |-> 30]
         IN  IF http.kind = "error"
             THEN [result |-> Returned(FailureDict(
                        "AI review service error: " \o http.detail,
                        "Failed to complete code review")),
                   posts  |-> <<post>>]
             ELSE [result |-> _process_review_response(http.json),
                   posts  |-> <<post>>]

\* what requests.post(...) followed by raise_for_status() and json() gives
HttpError(detail) == [kind |-> "error", detail |-> detail, json |-> JsonNull]
HttpOk(json)      == [kind |-> "ok",    detail |-> "",     json |-> json]

HttpOutcomes ==
    { HttpError("503 Server Error: Service Unavailable"),
      HttpError("Read timed out. (read timeout=30)"),
      HttpOk(JsonObject([status |-> "success", summary |-> "Looks good",
                         suggestions |-> <<"Rename x", "Add tests">>])),
      HttpOk(JsonObject([status |-> "failed", summary |-> "Analysis failed",
                         suggestions |-> <<>>])),
      HttpOk(JsonObject([summary |-> "No status", suggestions |-> <<>>])),
      HttpOk(JsonNull) }

---------------------------------------------------------------------------
(* The endpoints (app.py) *)

\* the repository at settings.REPO_PATH: what git diff main...<branch> gives
RepoDiff(branch_name) ==
    IF branch_name = "feature/parser" THEN GitOk(TwoFileDiff)
    ELSE IF branch_name = "feature/empty" THEN GitOk("")
    ELSE GitError("fatal: bad revision 'main..." \o branch_name \o "'")

IssueKeys   == {"AIREV-1", "OTHER-7", "AIREV-404"}
BranchNames == {"feature/parser", "feature/empty", "nope"}

HTTPException(status_code, detail) ==
    [status_code |-> status_code, detail |-> detail, body |-> <<>>]

\* an exception that no except clause of the handler catches
Unhandled(e) == [status_code |-> 0, detail |-> e.msg, body |-> <<>>]

\* the classes an exception of each kind is an instance of
Bases ==
    [k \in {"ValueError", "TypeError", "JIRAError", "Exception"} |->
        {k, "Exception", "BaseException"}]

IsInstance(e, class) == class \in Bases[e.raised]

\* (variants of the except clauses: without "except ValueError", with every
\* exception answered 400, without "except Exception")
HandleExceptionNoValueError(e) ==
    IF IsInstance(e, "Exception") THEN HTTPException(500, e.msg)
    ELSE Unhandled(e)
HandleExceptionAllBadRequest(e) ==
    IF IsInstance(e, "Exception") THEN HTTPException(400, e.msg)
    ELSE Unhandled(e)
HandleExceptionNoCatchAll(e) ==
    IF IsInstance(e, "ValueError") THEN HTTPException(400, e.msg)
    ELSE Unhandled(e)
\* the except clauses of review_code
HandleException(e) ==
    IF IsInstance(e, "ValueError") THEN HTTPException(400, e.msg)
    ELSE IF IsInstance(e, "Exception") THEN HTTPException(500, e.msg)
    ELSE Unhandled(e)

\* git_service is not None
git_health == TRUE
\* "We'll assume AI service is healthy for now"
ai_health == TRUE

\* (variant that leaves jira_health out of all([...]))
OverallStatusIgnoringJira(jira_health, git, ai) ==
    IF git /\ ai THEN "healthy" ELSE "degraded"
\* "healthy" if all([jira_health, git_health, ai_health]) else "degraded"
OverallStatus(jira_health, git, ai) ==
    IF jira_health /\ git /\ ai THEN "healthy" ELSE "degraded"

HealthResponse(jira_health, git, ai) ==
    [status                |-> OverallStatus(jira_health, git, ai),
     jira_connection       |-> jira_health,
     git_connection        |-> git,
     ai_service_connection |-> ai]

\* (variant that reports the outcome's own status to the caller)
ReviewResponseEchoingOutcome(issue_key, rr) ==
    [status_code |-> 200, detail |-> "",
     body |-> <<[status |-> rr.status, issue_key |-> issue_key,
                 review_results |-> rr]>>]
\* ReviewResponse(status="success", issue_key=..., review_results=...)
ReviewResponse(issue_key, rr) ==
    [status_code |-> 200, detail |-> "",
     body |-> <<[status |-> "success", issue_key |-> issue_key,
                 review_results |-> rr]>>]

Call(op, arg, ok) == [op |-> op, arg |-> arg, ok |-> ok]

Terminal == {"Done", "Aborted", "Failed", "Crashed"}

SvcInit ==
    /\ settings \in [AI_SERVICE_URL : {"", "https://ai.example"},
                     AI_SERVICE_API_KEY : {"", "secret"}]
    /\ jiraUp \in BOOLEAN
    /\ _client = 0
    /\ healthCache = <<>>
    /\ reqNo = 0
    /\ handler = ""
    /\ request = NoRequest
    /\ pc = "Idle"
    /\ attempt = 0
    /\ connects = 0
    /\ sleeps = <<>>
    /\ tested = {}
    /\ post_response = <<>>
    /\ connectRet = ""
    /\ health = <<>>
    /\ code_changes = <<>>
    /\ review_results = <<>>
    /\ transition_id = ""
    /\ calls = <<>>
    /\ error = <<>>
    /\ response = <<>>
    /\ diffOut = GitOk("")
    /\ blameOut = GitOk("")
    /\ parsed = NotCalled
    /\ RaceIdle

\* a request arrives: GET /health or POST /review
StartRequest ==
    /\ pc \in {"Idle"} \cup Terminal
    /\ reqNo < MaxRequests
    /\ reqNo' = reqNo + 1
    /\ \E h \in {"health_check", "review_code"} :
          /\ handler' = h
          /\ request' \in IF h = "health_check" THEN {NoRequest}
                          ELSE [issue_key : IssueKeys, branch_name : BranchNames]
    /\ pc' = "HealthChecking"
    /\ health' = <<>>
    /\ code_changes' = <<>>
    /\ review_results' = <<>>
    /\ transition_id' = ""
    /\ calls' = <<>>
    /\ error' = <<>>
    /\ response' = <<>>
    /\ post_response' = <<>>
    /\ UNCHANGED <<settings, jiraUp, _client, healthCache, attempt, connectRet>>
    /\ UNCHANGED parseVars
    /\ UNCHANGED raceVars
    /\ UNCHANGED connVars

\* the tracker becomes unreachable or reachable again
EnvChange ==
    /\ jiraUp' = ~jiraUp
    /\ UNCHANGED <<settings, _client, healthCache, reqNo, handler, request, pc,
                   attempt, connectRet, health, code_changes, review_results,
                   transition_id, calls, error, response>>
    /\ UNCHANGED parseVars
    /\ UNCHANGED raceVars
    /\ UNCHANGED connVars
    /\ UNCHANGED post_response

\* the rest of health_check and the gate of review_code, once
\* jira_service.check_health() has returned jira_health
FinishHealth(jira_health) ==
    LET h == HealthResponse(jira_health, git_health, ai_health)
    IN  /\ health' = <<h>>
        /\ IF handler = "health_check"
           THEN /\ pc' = "Done"
                /\ response' = <<[status_code |-> 200, detail |-> "",
                                  body |-> <<h>>]>>
           ELSE IF h.status # "healthy"
           THEN /\ pc' = "Aborted"
                /\ response' = <<HTTPException(503,
                      "Service is not fully operational. Check /health endpoint for details.")>>
           ELSE /\ pc' = "Extracting"
                /\ response' = response

\* an exception leaves the try block of review_code at position stage
Fail(stage, e) ==
    /\ error' = <<[stage |-> stage, raised |-> e.raised, msg |-> e.msg]>>
    /\ response' = <<HandleException(e)>>
    /\ pc' = IF HandleException(e).status_code = 0 THEN "Crashed" ELSE "Failed"

\* check_health: lru_cache hit, the body is not run
CheckHealthCached ==
    /\ pc = "HealthChecking"
    /\ healthCache # <<>>
    /\ FinishHealth(healthCache[1])
    /\ UNCHANGED <<settings, jiraUp, _client, healthCache, reqNo, handler,
                   request, attempt, connectRet, code_changes, review_results,
                   transition_id, calls, error>>
    /\ UNCHANGED parseVars
    /\ UNCHANGED raceVars
    /\ UNCHANGED connVars
    /\ UNCHANGED post_response

\* check_health: cache miss, self.client.server_info() on the handle
CheckHealthProbe ==
    /\ pc = "HealthChecking"
    /\ healthCache = <<>>
    /\ _client # 0
    /\ healthCache' = <<jiraUp>>
    /\ FinishHealth(jiraUp)
    /\ UNCHANGED <<settings, jiraUp, _client, reqNo, handler, request, attempt,
                   connectRet, code_changes, review_results, transition_id,
                   calls, error>>
    /\ UNCHANGED parseVars
    /\ UNCHANGED raceVars
    /\ UNCHANGED connVars
    /\ UNCHANGED post_response

\* JiraService.client with self._client None: the connect loop starts
ClientConnectStart ==
    /\ pc \in {"HealthChecking", "Enriching", "Publishing", "Commenting",
               "ListingTransitions", "ExecTransition"}
    /\ pc = "HealthChecking" => healthCache = <<>>
    /\ _client = 0
    /\ connectRet' = pc
    /\ attempt' = 0
    /\ pc' = "ClientCtor"
    /\ UNCHANGED <<settings, jiraUp, _client, healthCache, reqNo, handler,
                   request, health, code_changes, review_results,
                   transition_id, calls, error, response>>
    /\ UNCHANGED parseVars
    /\ UNCHANGED raceVars
    /\ UNCHANGED connVars
    /\ UNCHANGED post_response

\* (variant whose loop gives up one attempt later)
IsLastAttemptOffByOne(a) == a = _max_retries
\* if attempt == self._max_retries - 1
IsLastAttempt(a) == a = _max_retries - 1

\* the except branch of the connect loop: raise after the last attempt
\* (check_health turns the exception into False), else sleep and retry
ConnectAttemptFailed(msg) ==
    IF IsLastAttempt(attempt)
    THEN /\ attempt' = 0
         /\ sleeps' = sleeps
         /\ connectRet' = ""
         /\ IF connectRet = "HealthChecking"
            THEN /\ healthCache' = <<FALSE>>
                 /\ FinishHealth(FALSE)
                 /\ error' = error
            ELSE /\ Fail(connectRet,
                      Raised("Exception", "Failed to connect to Jira after "
                          \o ToString(_max_retries) \o " attempts: " \o msg))
                 /\ UNCHANGED <<healthCache, health>>
    ELSE /\ attempt' = attempt + 1
         /\ sleeps' = Append(sleeps, _retry_delay)
         /\ pc' = "ClientCtor"
         /\ UNCHANGED <<connectRet, healthCache, health, error, response>>

\* self._client = JIRA(server=..., basic_auth=...)
ConnectCtor ==
    /\ pc = "ClientCtor"
    /\ connects' = connects + 1
    /\ IF jiraUp
       THEN /\ _client' = _client + 1
            /\ pc' = "ClientTest"
            /\ UNCHANGED <<attempt, connectRet, healthCache, health, error,
                           response, sleeps>>
       ELSE /\ ConnectAttemptFailed("HTTPSConnectionPool: Max retries exceeded")
            /\ _client' = _client
    /\ UNCHANGED <<settings, jiraUp, reqNo, handler, request, code_changes,
                   review_results, transition_id, calls, tested>>
    /\ UNCHANGED parseVars
    /\ UNCHANGED raceVars
    /\ UNCHANGED post_response

\* self._client.server_info(); break
ConnectTest ==
    /\ pc = "ClientTest"
    /\ IF jiraUp
       THEN /\ pc' = connectRet
            /\ attempt' = 0
            /\ connectRet' = ""
            /\ tested' = tested \cup {_client}
            /\ UNCHANGED <<healthCache, health, error, response, sleeps>>
       ELSE /\ ConnectAttemptFailed("HTTPSConnectionPool: Max retries exceeded")
            /\ tested' = tested
    /\ UNCHANGED <<settings, jiraUp, _client, reqNo, handler, request,
                   code_changes, review_results, transition_id, calls,
                   connects>>
    /\ UNCHANGED parseVars
    /\ UNCHANGED raceVars
    /\ UNCHANGED post_response

\* code_changes = git_service.get_branch_changes(request.branch_name)
Extract ==
    /\ pc = "Extracting"
    /\ \E blame \in BlameOutcomes :
          LET r == get_branch_changes(RepoDiff(request.branch_name), blame)
          IN  /\ calls' = Append(calls,
                      Call("git.diff", request.branch_name, r.raised = ""))
              /\ IF r.raised # ""
                 THEN /\ Fail("Extracting", r)
                      /\ code_changes' = code_changes
                 ELSE /\ code_changes' = r.value
                      /\ pc' = "Enriching"
                      /\ UNCHANGED <<error, response>>
    /\ UNCHANGED <<settings, jiraUp, _client, healthCache, reqNo, handler,
                   request, attempt, connectRet, health, review_results,
                   transition_id>>
    /\ UNCHANGED parseVars
    /\ UNCHANGED raceVars
    /\ UNCHANGED connVars
    /\ UNCHANGED post_response

\* jira_context = jira_service.get_issue_context(request.issue_key) and the
\* loop attaching it to every change
Enrich ==
    /\ pc = "Enriching"
    /\ _client # 0
    /\ LET fetched == ClientIssue(request.issue_key, jiraUp)
           r       == get_issue_context(request.issue_key, fetched)
       IN  /\ calls' = Append(calls,
                   Call("jira.issue", request.issue_key, fetched.raised = ""))
           /\ IF r.raised # ""
              THEN /\ Fail("Enriching", r)
                   /\ code_changes' = code_changes
              ELSE /\ code_changes' =
                        [i \in 1..Len(code_changes) |->
                            ("jira_context" :> r.value) @@ code_changes[i]]
                   /\ pc' = "Reviewing"
                   /\ UNCHANGED <<error, response>>
    /\ UNCHANGED <<settings, jiraUp, _client, healthCache, reqNo, handler,
                   request, attempt, connectRet, health, review_results,
                   transition_id>>
    /\ UNCHANGED parseVars
    /\ UNCHANGED raceVars
    /\ UNCHANGED connVars
    /\ UNCHANGED post_response

\* review_results = ai_review_service.review_code(code_changes)
Review ==
    /\ pc = "Reviewing"
    /\ \E http \in HttpOutcomes :
          LET out == AIReviewService_review_code(settings, code_changes, http)
          IN  /\ calls' = calls \o
                      [i \in 1..Len(out.posts) |->
                          Call("requests.post", out.posts[i],
                               http.kind = "ok")]
              /\ post_response' = IF out.posts = <<>> THEN <<>> ELSE <<http>>
              /\ IF out.result.raised # ""
                 THEN /\ Fail("Reviewing", out.result)
                      /\ review_results' = review_results
                 ELSE /\ review_results' = <<out.result.value>>
                      /\ pc' = "Publishing"
                      /\ UNCHANGED <<error, response>>
    /\ UNCHANGED <<settings, jiraUp, _client, healthCache, reqNo, handler,
                   request, attempt, connectRet, health, code_changes,
                   transition_id>>
    /\ UNCHANGED parseVars
    /\ UNCHANGED raceVars
    /\ UNCHANGED connVars

\* update_with_review: issue = self.client.issue(issue_key)
PublishFetch ==
    /\ pc = "Publishing"
    /\ _client # 0
    /\ LET fetched == ClientIssue(request.issue_key, jiraUp)
       IN  /\ calls' = Append(calls,
                   Call("jira.issue", request.issue_key, fetched.raised = ""))
           /\ IF fetched.raised # ""
              THEN Fail("Publishing", fetched)
              ELSE /\ pc' = "Commenting"
                   /\ UNCHANGED <<error, response>>
    /\ UNCHANGED <<settings, jiraUp, _client, healthCache, reqNo, handler,
                   request, attempt, connectRet, health, code_changes,
                   review_results, transition_id>>
    /\ UNCHANGED parseVars
    /\ UNCHANGED raceVars
    /\ UNCHANGED connVars
    /\ UNCHANGED post_response

\* the handler returns ReviewResponse(status="success", ...)
ReturnSuccess ==
    /\ pc' = "Done"
    /\ response' = <<ReviewResponse(request.issue_key, review_results[1])>>
    /\ error' = error

\* update_with_review: self.client.add_comment(issue, comment_body), then
\* the choice of the status to move to
PublishComment ==
    /\ pc = "Commenting"
    /\ _client # 0
    /\ LET body == _format_review_comment(review_results[1])
           r    == ClientCall(jiraUp)
       IN  /\ calls' = Append(calls, Call("jira.add_comment", body, r.raised = ""))
           /\ IF r.raised # ""
              THEN Fail("Commenting", r)
              ELSE IF TargetStatus(review_results[1]) # ""
              THEN /\ pc' = "ListingTransitions"
                   /\ UNCHANGED <<error, response>>
              ELSE ReturnSuccess
    /\ UNCHANGED <<settings, jiraUp, _client, healthCache, reqNo, handler,
                   request, attempt, connectRet, health, code_changes,
                   review_results, transition_id>>
    /\ UNCHANGED parseVars
    /\ UNCHANGED raceVars
    /\ UNCHANGED connVars
    /\ UNCHANGED post_response

\* _transition_issue: transitions = self.client.transitions(issue) and the
\* search for the matching name
ListTransitions ==
    /\ pc = "ListingTransitions"
    /\ _client # 0
    /\ \E available \in TransitionLists :
          LET r  == ClientCall(jiraUp)
              id == MatchingTransition(available,
                                       TargetStatus(review_results[1]))
          IN  /\ calls' = Append(calls,
                      Call("jira.transitions", available, r.raised = ""))
              /\ IF r.raised # ""
                 THEN /\ Fail("ListingTransitions", r)
                      /\ transition_id' = transition_id
                 ELSE IF id # ""
                 THEN /\ transition_id' = id
                      /\ pc' = "ExecTransition"
                      /\ UNCHANGED <<error, response>>
                 ELSE /\ transition_id' = transition_id
                      /\ ReturnSuccess
    /\ UNCHANGED <<settings, jiraUp, _client, healthCache, reqNo, handler,
                   request, attempt, connectRet, health, code_changes,
                   review_results>>
    /\ UNCHANGED parseVars
    /\ UNCHANGED raceVars
    /\ UNCHANGED connVars
    /\ UNCHANGED post_response

\* _transition_issue: self.client.transition_issue(issue, t["id"]); break
ExecTransition ==
    /\ pc = "ExecTransition"
    /\ _client # 0
    /\ LET r == ClientCall(jiraUp)
       IN  /\ calls' = Append(calls,
                   Call("jira.transition_issue", transition_id, r.raised = ""))
           /\ IF r.raised # ""
              THEN Fail("ExecTransition", r)
              ELSE ReturnSuccess
    /\ UNCHANGED <<settings, jiraUp, _client, healthCache, reqNo, handler,
                   request, attempt, connectRet, health, code_changes,
                   review_results, transition_id>>
    /\ UNCHANGED parseVars
    /\ UNCHANGED raceVars
    /\ UNCHANGED connVars
    /\ UNCHANGED post_response

\* the steps of the handler of the current request
HandlerStep ==
    \/ CheckHealthCached
    \/ CheckHealthProbe
    \/ ClientConnectStart
    \/ ConnectCtor
    \/ ConnectTest
    \/ Extract
    \/ Enrich
    \/ Review
    \/ PublishFetch
    \/ PublishComment
    \/ ListTransitions
    \/ ExecTransition

Next ==
    \/ StartRequest
    \/ EnvChange
    \/ HandlerStep

Spec == SvcInit /\ [][Next]_vars

---------------------------------------------------------------------------
(* RaceSpec: JiraService.client entered by two callers of one JiraService   *)
(* while self._client is None.  The property takes no lock, so the callers' *)
(* statements interleave freely.                                            *)

\* what the callers share, and what RaceSpec leaves alone
handlerVars == <<settings, healthCache, reqNo, handler, request, pc, attempt,
                 connectRet, health, code_changes, review_results,
                 transition_id, calls, error, response, post_response>>

RaceInit ==
    /\ SvcIdle
    /\ diffOut = GitOk("")
    /\ blameOut = GitOk("")
    /\ parsed = NotCalled
    /\ tpc = [t \in Threads |-> "Check"]
    /\ tattempt = [t \in Threads |-> 0]
    /\ tret = [t \in Threads |-> 0]

\* if self._client is None:
RaceCheck(t) ==
    /\ tpc[t] = "Check"
    /\ tpc' = [tpc EXCEPT ![t] = IF _client = 0 THEN "Ctor" ELSE "Return"]
    /\ UNCHANGED <<tattempt, tret, _client, jiraUp, connects, sleeps, tested>>
    /\ UNCHANGED handlerVars
    /\ UNCHANGED parseVars

\* the except branch, for caller t
RaceAttemptFailed(t) ==
    IF IsLastAttempt(tattempt[t])
    THEN /\ tpc' = [tpc EXCEPT ![t] = "Raised"]
         /\ UNCHANGED <<tattempt, sleeps>>
    ELSE /\ tpc' = [tpc EXCEPT ![t] = "Ctor"]
         /\ tattempt' = [tattempt EXCEPT ![t] = @ + 1]
         /\ sleeps' = Append(sleeps, _retry_delay)

\* self._client = JIRA(server=..., basic_auth=...)
RaceCtor(t) ==
    /\ tpc[t] = "Ctor"
    /\ connects' = connects + 1
    /\ IF jiraUp
       THEN /\ _client' = _client + 1
            /\ tpc' = [tpc EXCEPT ![t] = "Test"]
            /\ UNCHANGED <<tattempt, sleeps>>
       ELSE /\ RaceAttemptFailed(t)
            /\ _client' = _client
    /\ UNCHANGED <<tret, jiraUp, tested>>
    /\ UNCHANGED handlerVars
    /\ UNCHANGED parseVars

\* self._client.server_info(); break
RaceTest(t) ==
    /\ tpc[t] = "Test"
    /\ IF jiraUp
       THEN /\ tested' = tested \cup {_client}
            /\ tpc' = [tpc EXCEPT ![t] = "Return"]
            /\ UNCHANGED <<tattempt, sleeps>>
       ELSE /\ RaceAttemptFailed(t)
            /\ tested' = tested
    /\ UNCHANGED <<tret, _client, jiraUp, connects>>
    /\ UNCHANGED handlerVars
    /\ UNCHANGED parseVars

\* return self._client
RaceReturn(t) ==
    /\ tpc[t] = "Return"
    /\ tret' = [tret EXCEPT ![t] = _client]
    /\ tpc' = [tpc EXCEPT ![t] = "Done"]
    /\ UNCHANGED <<tattempt, _client, jiraUp, connects, sleeps, tested>>
    /\ UNCHANGED handlerVars
    /\ UNCHANGED parseVars

\* the tracker becomes unreachable or reachable again
RaceEnv ==
    /\ \E t \in Threads : tpc[t] \notin {"Done", "Raised"}
    /\ jiraUp' = ~jiraUp
    /\ UNCHANGED <<tpc, tattempt, tret, _client, connects, sleeps, tested>>
    /\ UNCHANGED handlerVars
    /\ UNCHANGED parseVars

RaceNext ==
    \/ \E t \in Threads : RaceCheck(t)
    \/ \E t \in Threads : RaceCtor(t)
    \/ \E t \in Threads : RaceTest(t)
    \/ \E t \in Threads : RaceReturn(t)
    \/ RaceEnv

RaceSpec == RaceInit /\ [][RaceNext]_vars

---------------------------------------------------------------------------
(* Claims about the endpoints *)

ReviewRequestRunning == handler = "review_code"

\* operations of the current request on the repository, the tracker's
\* issues and the backend
Performed(ops) == \E i \in 1..Len(calls) : calls[i].op \in ops

AnyStepOps ==
    {"git.diff", "jira.issue", "requests.post", "jira.add_comment",
     "jira.transitions", "jira.transition_issue"}

\* C5: whenever one of the three health values computed at the start of a
\* review request is false, the request ends with the service-unavailable
\* outcome and performs no extraction, enrichment, submission, comment or
\* transition.
C5_UnhealthyAborts ==
    ( /\ ReviewRequestRunning
      /\ health # <<>>
      /\ \/ ~health[1].jira_connection
         \/ ~health[1].git_connection
         \/ ~health[1].ai_service_connection )
    => /\ pc = "Aborted"
       /\ response # <<>>
       /\ response[1].status_code = 503
       /\ ~Performed(AnyStepOps)

C5_Witness ==
    /\ ReviewRequestRunning
    /\ health # <<>>
    /\ ~health[1].jira_connection
    /\ pc = "Aborted"
    /\ response[1].status_code = 503

\* C6: every health check call reports as jira_connection the tracker's
\* reachability at the time of that call; no earlier result is reused.
C6_HealthIsFresh ==
    [][ (health = <<>> /\ health' # <<>>)
            => health'[1].jira_connection = jiraUp ]_vars

EnrichmentFailed(msgs) ==
    /\ error # <<>>
    /\ error[1].stage = "Enriching"
    /\ error[1].msg \in msgs

NotFoundMsg == "Issue Does Not Exist"
WrongProjectMsg(issue_key) ==
    "Issue " \o issue_key \o " does not belong to project " \o JIRA_PROJECT_KEY

\* C7: a request whose enrichment fails with NotFound (no such issue key)
\* or WrongProject (issue of another project) ends with the client-input
\* (4xx) classification, never the internal (5xx) one, and performs no
\* backend submission and no comment.
C7_EnrichmentErrorsAre4xx ==
    EnrichmentFailed({NotFoundMsg, WrongProjectMsg(request.issue_key)})
    => /\ response # <<>>
       /\ response[1].status_code = 400
       /\ ~Performed({"requests.post", "jira.add_comment"})

\* C8: a request whose extraction fails in the diff invocation ends with
\* the client-input (4xx) classification carrying the wrapped message, and
\* performs no tracker fetch, submission, comment or transition.
C8_ExtractionErrorIs4xx ==
    (error # <<>> /\ error[1].stage = "Extracting")
    => /\ ~RepoDiff(request.branch_name).ok
       /\ response = <<HTTPException(400,
              "Error getting branch changes: "
                  \o RepoDiff(request.branch_name).out)>>
       /\ pc = "Failed"
       /\ ~Performed(AnyStepOps \ {"git.diff"})

C8_Witness ==
    /\ error # <<>>
    /\ error[1].stage = "Extracting"
    /\ request.branch_name = "nope"
    /\ response[1].status_code = 400
    /\ Performed({"git.diff"})

PublishStages ==
    {"Publishing", "Commenting", "ListingTransitions", "ExecTransition"}

CommentPosted ==
    \E i \in 1..Len(calls) : calls[i].op = "jira.add_comment" /\ calls[i].ok

\* C9: if the issue fetch, add-comment, transition listing or transition
\* execution of the publishing step raises after the review outcome was
\* produced, the request ends with the internal (5xx) classification
\* carrying the exception's message; the caller gets neither status
\* 'success' nor the review results, comment posted or not.
C9_PublishFailureIs5xx ==
    (error # <<>> /\ error[1].stage \in PublishStages)
    => /\ review_results # <<>>
       /\ pc = "Failed"
       /\ response = <<HTTPException(500, error[1].msg)>>
       /\ response[1].body = <<>>

C9_Witness ==
    /\ error # <<>>
    /\ error[1].stage \in {"ListingTransitions", "ExecTransition"}
    /\ CommentPosted
    /\ review_results[1].status = "success"
    /\ response[1].status_code = 500

ClassifiedOutcome ==
    /\ pc # "Crashed"
    /\ (ReviewRequestRunning /\ pc \notin Terminal) => response = <<>>
    /\ (ReviewRequestRunning /\ pc \in Terminal) =>
          /\ response # <<>>
          /\ \/ /\ pc = "Done"
                /\ response[1].status_code = 200
                /\ response[1].body[1].status = "success"
                /\ error = <<>>
             \/ /\ pc = "Aborted"
                /\ response[1].status_code = 503
                /\ error = <<>>
             \/ /\ pc = "Failed"
                /\ response[1].status_code \in {400, 500}
                /\ error # <<>>
                /\ response[1].detail = error[1].msg

\* an upper bound on the handler steps the current request still takes: the
\* stages left after pc, plus two steps for each attempt the connect loop
\* may still make
StagesLeft ==
    [p \in {"", "Idle"} \cup Terminal |-> 0]
    @@ ("ExecTransition" :> 1) @@ ("ListingTransitions" :> 2)
    @@ ("Commenting" :> 3) @@ ("Publishing" :> 4) @@ ("Reviewing" :> 5)
    @@ ("Enriching" :> 6) @@ ("Extracting" :> 7) @@ ("HealthChecking" :> 8)

StepsLeft ==
    IF pc = "ClientCtor"
    THEN StagesLeft[connectRet] + 2 * (_max_retries - attempt)
    ELSE IF pc = "ClientTest"
    THEN StagesLeft[connectRet] + 2 * (_max_retries - attempt) - 1
    ELSE IF /\ _client = 0
            /\ pc \notin {"Idle", "Extracting", "Reviewing"} \cup Terminal
            /\ pc = "HealthChecking" => healthCache = <<>>
    THEN StagesLeft[pc] + 2 * _max_retries + 1
    ELSE StagesLeft[pc]

\* C10: every review request terminates in exactly one classified outcome:
\* success (Done), service-unavailable (Aborted), client-input or internal
\* error (Failed); whatever fails in the health check, extraction,
\* enrichment, review or publishing, no other exception escapes.  Every
\* step of the handler lowers StepsLeft, so the handler cannot run forever.
C10_AlwaysClassified ==
    /\ []ClassifiedOutcome
    /\ [][ (reqNo' = reqNo /\ jiraUp' = jiraUp)
              => StepsLeft' < StepsLeft ]_vars

C10_Witness ==
    /\ ReviewRequestRunning
    /\ pc = "Failed"
    /\ error[1].stage = "Reviewing"
    /\ error[1].raised = "TypeError"
    /\ response[1].status_code = 500

---------------------------------------------------------------------------
(* Claims about AIReviewService *)

\* ai_review_service.review_code(code_changes) of this request has finished
ReviewRan ==
    \/ review_results # <<>>
    \/ error # <<>> /\ error[1].stage = "Reviewing"

PostsMade == {i \in 1..Len(calls) : calls[i].op = "requests.post"}

\* C11: when the backend URL or the API key is unset or empty, review_code
\* returns the Failure with error 'AI service not configured' and summary
\* 'Unable to perform code review: AI service not configured' and makes no
\* HTTP request, whatever list of records it is given.
C11_UnconfiguredFailsOffline ==
    (/\ ReviewRequestRunning
     /\ settings.AI_SERVICE_URL = "" \/ settings.AI_SERVICE_API_KEY = ""
     /\ ReviewRan)
    => /\ review_results # <<>>
       /\ review_results[1].status = "failed"
       /\ review_results[1].error = "AI service not configured"
       /\ review_results[1].summary =
              "Unable to perform code review: AI service not configured"
       /\ PostsMade = {}

C11_Witness ==
    /\ ReviewRequestRunning
    /\ settings.AI_SERVICE_URL # ""
    /\ settings.AI_SERVICE_API_KEY = ""
    /\ review_results # <<>>
    /\ Len(code_changes) = 2

\* the decoded body of a 2xx response holds the three required keys
HasRequiredKeys(d) ==
    /\ d.type = "object"
    /\ {"status", "suggestions", "summary"} \subseteq DOMAIN d.dict

\* the outcome C12 describes for the decoded body d of a 2xx response
ValidatedOutcome(d) ==
    /\ review_results # <<>>
    /\ IF HasRequiredKeys(d)
       THEN /\ review_results[1].status = "success"
            /\ review_results[1].summary = d.dict.summary
            /\ review_results[1].suggestions = d.dict.suggestions
       ELSE /\ review_results[1].status = "failed"
            /\ review_results[1].error = "Invalid response from AI service"
            /\ review_results[1].summary =
                   "Failed to process AI review results"

\* C12: for a 2xx response review_code returns Success with the response's
\* summary and suggestions exactly when the decoded response holds the keys
\* status, suggestions and summary, whatever its status field says; when a
\* key is missing it returns the Failure 'Invalid response from AI service'
\* / 'Failed to process AI review results'.
C12_SuccessIffRequiredKeys ==
    (/\ ReviewRequestRunning
     /\ post_response # <<>>
     /\ post_response[1].kind = "ok")
    => ValidatedOutcome(post_response[1].json)

\* the same, for the responses whose decoded body is a JSON object
ObjectResponsesValidated ==
    (/\ ReviewRequestRunning
     /\ post_response # <<>>
     /\ post_response[1].kind = "ok"
     /\ post_response[1].json.type = "object")
    => ValidatedOutcome(post_response[1].json)

ForcedSuccessReached ==
    /\ post_response # <<>>
    /\ post_response[1].kind = "ok"
    /\ HasRequiredKeys(post_response[1].json)
    /\ post_response[1].json.dict.status = "failed"
    /\ review_results # <<>>
    /\ review_results[1].status = "success"

\* C13: when the service is configured and the POST ends in a non-2xx
\* response, a network error or a timeout, review_code returns (it does not
\* raise) the Failure whose error starts with 'AI review service error: '
\* and whose summary is 'Failed to complete code review', after exactly one
\* POST.
C13_TransportErrorIsFailure ==
    (/\ ReviewRequestRunning
     /\ post_response # <<>>
     /\ post_response[1].kind = "error")
    => /\ review_results # <<>>
       /\ ~(error # <<>> /\ error[1].stage = "Reviewing")
       /\ review_results[1].status = "failed"
       /\ StartsWith(review_results[1].error, "AI review service error: ")
       /\ review_results[1].summary = "Failed to complete code review"
       /\ Cardinality(PostsMade) = 1

C13_Witness ==
    /\ ReviewRequestRunning
    /\ post_response # <<>>
    /\ post_response[1].kind = "error"
    /\ post_response[1].detail = "Read timed out. (read timeout=30)"
    /\ review_results # <<>>
    /\ Cardinality(PostsMade) = 1

---------------------------------------------------------------------------
(* Claims about publishing (JiraService.update_with_review) *)

\* sub occurs in s
Contains(s, sub) ==
    \E k \in 1..(Len(s) - Len(sub) + 1) : SubSeq(s, k, k + Len(sub) - 1) = sub

IsBullet(l) == StartsWith(l, "* ")

\* the bullet lines of a comment body, in order
BulletLines(body) == SelectSeq(Split(body, "\n"), IsBullet)

CommentsPosted == {i \in 1..Len(calls) : calls[i].op = "jira.add_comment"}

\* C14: the comment body of a Success outcome has the Summary section with
\* the outcome's summary and the Suggestions section with one bullet per
\* suggestion, in order; the comment body of a Failure outcome produced by
\* AIReviewService has the Summary section and no Suggestions section.
C14_CommentSections ==
    \A i \in CommentsPosted :
        LET body == calls[i].arg
            rr   == review_results[1]
        IN  /\ Contains(body, "h3. Summary\n" \o rr.summary \o "\n")
            /\ IF rr.status = "success"
               THEN /\ Contains(body, "h3. Suggestions\n")
                    /\ BulletLines(body) =
                          [k \in 1..Len(rr.suggestions) |->
                              "* " \o rr.suggestions[k]]
               ELSE ~Contains(body, "Suggestions")

\* the part of C14 about Success outcomes, and the Summary section of all
SuccessCommentSections ==
    \A i \in CommentsPosted :
        LET body == calls[i].arg
            rr   == review_results[1]
        IN  /\ Contains(body, "h3. Summary\n" \o rr.summary \o "\n")
            /\ rr.status = "success" =>
                  /\ Contains(body, "h3. Suggestions\n")
                  /\ BulletLines(body) =
                        [k \in 1..Len(rr.suggestions) |->
                            "* " \o rr.suggestions[k]]

TransitionsListed   == {i \in 1..Len(calls) : calls[i].op = "jira.transitions"}
TransitionsExecuted ==
    {i \in 1..Len(calls) : calls[i].op = "jira.transition_issue"}

\* the status name C15 gives for the outcome of this request
WantedStatus ==
    IF review_results[1].status = "failed" THEN "Review Failed"
    ELSE "Review Passed"

\* the available transitions listed by call l that carry the wanted name
Matches(l) ==
    {k \in 1..Len(calls[l].arg) :
        Lower(calls[l].arg[k].name) = Lower(WantedStatus)}

\* C15: update_with_review posts exactly one comment, whatever the outcome,
\* and does so before it looks up the transitions; it then executes at most
\* one transition, and only one whose name among the available transitions
\* equals, ignoring case, 'Review Failed' (Failure) or 'Review Passed'
\* (Success); when no available transition matches it executes none and
\* completes without error.
C15_OneCommentAtMostOneTransition ==
    ReviewRequestRunning =>
        /\ Cardinality(CommentsPosted) <= 1
        /\ pc = "Done" =>
               \E c \in CommentsPosted : calls[c].ok
        /\ \A t \in TransitionsListed \cup TransitionsExecuted :
               \E c \in CommentsPosted : c < t /\ calls[c].ok
        /\ Cardinality(TransitionsExecuted) <= 1
        /\ \A e \in TransitionsExecuted :
               \E l \in TransitionsListed :
                  /\ l < e
                  /\ \E k \in Matches(l) : calls[l].arg[k].id = calls[e].arg
        /\ \A l \in TransitionsListed :
               (calls[l].ok /\ Matches(l) = {}) =>
                  /\ TransitionsExecuted = {}
                  /\ pc = "Done"
                  /\ error = <<>>

C15_Witness ==
    /\ ReviewRequestRunning
    /\ pc = "Done"
    /\ review_results[1].status = "failed"
    /\ Cardinality(CommentsPosted) = 1
    /\ \E e \in TransitionsExecuted : calls[e].arg = "41" /\ calls[e].ok

\* a request completes although no available transition matched
NoMatchCompletes ==
    /\ ReviewRequestRunning
    /\ pc = "Done"
    /\ \E l \in TransitionsListed : Len(calls[l].arg) = 3 /\ Matches(l) = {}

---------------------------------------------------------------------------
(* Claims about the tracker connection (JiraService.client) *)

InConnectLoop == pc \in {"ClientCtor", "ClientTest"}

\* the loop ended with the exception of its last attempt
ConnectFatal ==
    \/ error # <<>> /\ StartsWith(error[1].msg, "Failed to connect to Jira")
    \/ healthCache = <<FALSE>> /\ health = <<HealthResponse(FALSE, TRUE, TRUE)>>

\* attempts are bounded and every wait lies between two attempts
ConnectLoopBounded ==
    /\ _max_retries = 5
    /\ connects <= _max_retries
    /\ \A k \in 1..Len(sleeps) : sleeps[k] = _retry_delay
    /\ Len(sleeps) = IF connects = 0 \/ pc = "ClientCtor" THEN connects
                     ELSE connects - 1

\* the loop ends with a tested handle given to the caller or, after the
\* last attempt, with the fatal error
ConnectLoopEnds ==
    (InConnectLoop /\ ~InConnectLoop') =>
        \/ _client' \in tested' /\ pc' = connectRet
        \/ /\ connects' = _max_retries
           /\ ConnectFatal'
           /\ pc' \in Terminal

\* an established connection is kept and no further attempt is made
EstablishedIsReused ==
    _client \in tested =>
        /\ _client' = _client
        /\ connects' = connects
        /\ sleeps' = sleeps
        /\ ~InConnectLoop'

\* C16: the first access to the tracker connection runs a connect loop of at
\* most max_retries (5) attempts that waits the fixed delay only between two
\* consecutive attempts and ends with an established connection or, after
\* the last failed attempt, with a fatal error; once a connection is
\* established every later access gets the same handle and no further
\* connection attempt is made.
C16_BoundedConnectLoop ==
    /\ []ConnectLoopBounded
    /\ [][ConnectLoopEnds /\ EstablishedIsReused]_vars

\* a connection established at the third attempt serves a later request
C16_Witness ==
    /\ reqNo = 2
    /\ pc = "Enriching"
    /\ _client \in tested
    /\ connects = 3
    /\ sleeps = <<_retry_delay, _retry_delay>>

\* the loop gave up after the last attempt
FatalReached == connects = _max_retries /\ ConnectFatal /\ Len(sleeps) = 4

---------------------------------------------------------------------------
(* Claims about the order of the steps of one request *)

IssueFetches == {i \in 1..Len(calls) : calls[i].op = "jira.issue"}

\* the step a call belongs to: 2 extraction, 3 enrichment, 4 backend
\* submission, 5 publishing (the health check, step 1, precedes all calls)
StepOf(i) ==
    IF calls[i].op = "git.diff" THEN 2
    ELSE IF calls[i].op = "jira.issue" /\ \A j \in IssueFetches : i <= j THEN 3
    ELSE IF calls[i].op = "requests.post" THEN 4
    ELSE 5

\* the IssueContext of the work item of this request
FetchedContext ==
    LET issue == TrackerIssues[request.issue_key]
    IN  [issue_key   |-> request.issue_key,
         summary     |-> issue.summary,
         description |-> issue.description,
         issue_type  |-> issue.issuetype,
         status      |-> issue.status,
         assignee    |-> issue.assignee]

\* C17: within one request the steps run strictly in the order health check,
\* extraction, enrichment, backend submission, publishing, each at most
\* once; the backend is submitted to only after extraction and the tracker
\* fetch succeeded, every record of the submitted payload carries the one
\* IssueContext fetched for this request, and the comment is posted only
\* after the review outcome was produced.
C17_StepsInOrder ==
    ReviewRequestRunning =>
        /\ calls # <<>> => health # <<>> /\ health[1].status = "healthy"
        /\ \A i, j \in 1..Len(calls) : i < j => StepOf(i) <= StepOf(j)
        /\ \A st \in {2, 3, 4} :
               Cardinality({i \in 1..Len(calls) : StepOf(i) = st}) <= 1
        /\ Cardinality(IssueFetches) <= 2
        /\ Cardinality(CommentsPosted) <= 1
        /\ \A p \in PostsMade :
               /\ \E g \in 1..(p - 1) :
                     calls[g].op = "git.diff" /\ calls[g].ok
               /\ \E f \in 1..(p - 1) :
                     calls[f].op = "jira.issue" /\ calls[f].ok
               /\ Len(calls[p].arg.json.files) = Len(code_changes)
               /\ \A k \in 1..Len(calls[p].arg.json.files) :
                     calls[p].arg.json.files[k].context = FetchedContext
        /\ \A c \in CommentsPosted :
               /\ review_results # <<>>
               /\ \A p \in PostsMade : p < c

C17_Witness ==
    /\ ReviewRequestRunning
    /\ \E p \in PostsMade : Len(calls[p].arg.json.files) = 2
    /\ \E c \in CommentsPosted : calls[c].ok
    /\ Cardinality(IssueFetches) = 2

---------------------------------------------------------------------------
(* Claims about the health gate and the analysis backend *)

\* the gate of this review request has been evaluated
GateEvaluated == ReviewRequestRunning /\ health # <<>>

\* C19: a review request made while the analysis backend is misconfigured
\* (URL or API key unset) fails the health gate: ai_service_connection is
\* reported false, the request is answered ServiceUnavailable (503) and
\* extraction is never invoked.
C19_BackendGate ==
    (GateEvaluated /\ NotConfigured(settings)) =>
        /\ health[1].ai_service_connection = FALSE
        /\ pc = "Aborted"
        /\ response # <<>> /\ response[1].status_code = 503
        /\ ~Performed({"git.diff"})

\* a request with an unconfigured backend that ran to completion
UngatedReviewCompleted ==
    /\ GateEvaluated
    /\ NotConfigured(settings)
    /\ health[1].ai_service_connection
    /\ Performed({"git.diff"})
    /\ pc = "Done"
    /\ response[1].status_code = 200

---------------------------------------------------------------------------
(* Claims about the cached tracker handle *)

\* C20: whenever no connect loop is in progress, JiraService._client is
\* non-null only if server_info() succeeded on that handle; after a connect
\* loop that ended with the fatal error the handle is still null, so that
\* the next access starts a new loop instead of returning an untested
\* handle.
C20_CachedHandleIsTested ==
    ~InConnectLoop =>
        /\ _client # 0 => _client \in tested
        /\ (connects = _max_retries /\ ConnectFatal) => _client = 0

\* the loop gave up and left a handle that never passed server_info()
UntestedHandleKept ==
    /\ ~InConnectLoop
    /\ connects = _max_retries
    /\ ConnectFatal
    /\ _client # 0
    /\ tested = {}

---------------------------------------------------------------------------
(* Claims about concurrent first use of the tracker connection *)

BothReturned == \A t \in Threads : tpc[t] = "Done"

\* C18: when two requests enter JiraService.client of the same JiraService
\* concurrently while no connection exists, initialisation is mutually
\* exclusive: in every interleaving at most one connection is constructed
\* and both requests end up with the same handle.
C18_SingleInitialisation ==
    /\ _client <= 1
    /\ BothReturned => tret[1] = tret[2]

\* with the tracker reachable throughout, both callers construct a
\* connection and leave with different handles
TwoHandlesHandedOut ==
    /\ BothReturned
    /\ connects = 2
    /\ sleeps = <<>>
    /\ _client = 2
    /\ tret[1] # tret[2]

---------------------------------------------------------------------------
(* Claims about Failure outcomes of the review *)

\* AIReviewService returned a Failure to review_code
FailureOutcome == review_results # <<>> /\ review_results[1].status = "failed"

\* update_with_review has returned: the comment is posted, the transitions
\* were listed and the matching one, if any, was executed
PublishingCompleted ==
    /\ \E c \in CommentsPosted : calls[c].ok
    /\ \E l \in TransitionsListed :
          /\ calls[l].ok
          /\ Matches(l) = {} \/ \E e \in TransitionsExecuted : calls[e].ok

CallerGotSuccess ==
    /\ response # <<>>
    /\ response[1].status_code = 200
    /\ response[1].body[1].status = "success"

\* a Failure outcome is handed on to publishing, and the caller's status
\* follows publishing alone
FailureIsPublished ==
    ReviewRequestRunning =>
        /\ (FailureOutcome /\ pc = "Failed") =>
               error[1].stage \in PublishStages
        /\ CallerGotSuccess <=> PublishingCompleted
        /\ PublishingCompleted =>
               /\ pc = "Done"
               /\ response[1].body[1].review_results = review_results[1]
               /\ FailureOutcome => WantedStatus = "Review Failed"

\* the review step that returns a Failure moves on to publishing
FailureGoesOn ==
    (pc = "Reviewing" /\ FailureOutcome') =>
        /\ pc' = "Publishing"
        /\ error' = <<>>
        /\ response' = <<>>

\* C21: a Failure returned by AIReviewService (backend unconfigured,
\* transport error, invalid response) never moves the request to Failed:
\* publishing still runs (comment posted, 'Review Failed' transition
\* attempted) and, if it completes, the caller receives status 'success'
\* with the Failure as review results; the caller's status is 'success'
\* exactly when publishing completed, for Success and Failure alike.
C21_FailureStillPublished ==
    /\ []FailureIsPublished
    /\ [][FailureGoesOn]_vars

C21_Witness ==
    /\ ReviewRequestRunning
    /\ pc = "Done"
    /\ FailureOutcome
    /\ review_results[1].error = "AI service not configured"
    /\ \E e \in TransitionsExecuted : calls[e].arg = "31" /\ calls[e].ok
    /\ CallerGotSuccess
    /\ response[1].body[1].review_results.status = "failed"

\* a Success outcome whose publishing raised: the caller gets no 'success'
SuccessOutcomeUnpublished ==
    /\ ReviewRequestRunning
    /\ review_results # <<>>
    /\ review_results[1].status = "success"
    /\ pc = "Failed"
    /\ ~CallerGotSuccess

===========================================================================
